---- MODULE Spec2Model ----
(***************************************************************************)
(* Model of src/extract_sections.py (class TlmgrExtractor).                *)
(*                                                                         *)
(* A line of text is a sequence of one-character strings; the help text is *)
(* a sequence of lines, each ending with the newline readlines() keeps.    *)
(* The combined mapping self.sections is a Python dict: it is modelled as  *)
(* a sequence of records in insertion order, where assigning to a key that *)
(* is present replaces the value in place.                                 *)
(***************************************************************************)
EXTENDS Integers, Sequences, FiniteSets, TLC

VARIABLES help_lines, pc, i, in_actions, main_sections, action_sections,
          sections, dirs, k, files, error, san_name, san_result

vars == <<help_lines, pc, i, in_actions, main_sections, action_sections,
          sections, dirs, k, files, error, san_name, san_result>>

\* ------------------------------------------------------------------ bounds

\* most lines of an input of the pipeline specification
MaxLines == 4
\* most characters (before the newline) of the free line of SpecLine
MaxLineLen == 4
\* most characters of a name given to sanitize_name in SpecSan
MaxNameLen == 4

\* ------------------------------------------------------------- characters

NL == "\n"
UpperSeq == <<"A","B","C","D","E","F","G","H","I","J","K","L","M",
              "N","O","P","Q","R","S","T","U","V","W","X","Y","Z">>
LowerSeq == <<"a","b","c","d","e","f","g","h","i","j","k","l","m",
              "n","o","p","q","r","s","t","u","v","w","x","y","z">>
UpperChars == {UpperSeq[n] : n \in DOMAIN UpperSeq}
LowerChars == {LowerSeq[n] : n \in DOMAIN LowerSeq}
DigitChars == {"0","1","2","3","4","5","6","7","8","9"}

\* str.isspace() of one character
IsSpaceChar(c) == c \in {" ", NL, "\t", "\r"}
\* the regular expression class \w
IsWordChar(c) == c \in UpperChars \cup LowerChars \cup DigitChars \cup {"_"}
\* str.lower() of one character
LowerChar(c) ==
    IF c \in UpperChars
    THEN LowerSeq[CHOOSE n \in DOMAIN UpperSeq : UpperSeq[n] = c]
    ELSE c

\* --------------------------------------------------------- string methods

\* s.startswith(p)
StartsWith(s, p) == Len(s) >= Len(p) /\ SubSeq(s, 1, Len(p)) = p

RECURSIVE RStrip(_)
\* s.rstrip(): trailing whitespace removed
RStrip(s) ==
    IF s = <<>> THEN s
    ELSE IF IsSpaceChar(s[Len(s)]) THEN RStrip(SubSeq(s, 1, Len(s) - 1))
    ELSE s

RECURSIVE LStrip(_)
\* s.lstrip(): leading whitespace removed
LStrip(s) ==
    IF s = <<>> THEN s
    ELSE IF IsSpaceChar(s[1]) THEN LStrip(Tail(s))
    ELSE s

\* s.strip()
Strip(s) == LStrip(RStrip(s))

\* s.isupper(): at least one cased character and no lowercase one
IsUpperNoCasedNeeded(s) == \A n \in DOMAIN s : s[n] \notin LowerChars
IsUpper(s) ==
    /\ \E n \in DOMAIN s : s[n] \in UpperChars \cup LowerChars
    /\ \A n \in DOMAIN s : s[n] \notin LowerChars

\* re.match(r"^[=\-]+$", content)
IsSeparator(content) ==
    /\ content # <<>>
    /\ \A n \in DOMAIN content : content[n] \in {"=", "-"}

RECURSIVE WordRun(_)
\* the longest prefix of s made of \w and '-' characters
WordRun(s) ==
    IF s = <<>> THEN <<>>
    ELSE IF IsWordChar(s[1]) \/ s[1] = "-" THEN <<s[1]>> \o WordRun(Tail(s))
    ELSE <<>>

\* re.match(r"^\s*(\w[\w\-]*)", line).group(1), or <<>> when there is no match
ActionMatch(line) ==
    LET rest == LStrip(line)
    IN IF rest # <<>> /\ IsWordChar(rest[1]) THEN WordRun(rest) ELSE <<>>

\* ----------------------------------------------------- program constants

ActionsName == <<"A","C","T","I","O","N","S">>
OptionsName == <<"O","P","T","I","O","N","S">>
ExitSet == {
    <<"C","O","N","F","I","G","U","R","A","T","I","O","N"," ",
      "F","I","L","E"," ","F","O","R"," ","T","L","M","G","R">>,
    <<"C","R","Y","P","T","O","G","R","A","P","H","I","C"," ",
      "V","E","R","I","F","I","C","A","T","I","O","N">>,
    <<"U","S","E","R"," ","M","O","D","E">>,
    <<"M","U","L","T","I","P","L","E"," ",
      "R","E","P","O","S","I","T","O","R","I","E","S">>,
    <<"G","U","I"," ","F","O","R"," ","T","L","M","G","R">>,
    <<"M","A","C","H","I","N","E","-","R","E","A","D","A","B","L","E"," ",
      "O","U","T","P","U","T">>,
    <<"E","N","V","I","R","O","N","M","E","N","T"," ",
      "V","A","R","I","A","B","L","E","S">>,
    <<"A","U","T","H","O","R","S"," ","A","N","D"," ",
      "C","O","P","Y","R","I","G","H","T">> }

TxtExt == <<".","t","x","t">>

\* -------------------------------------------------------- parse_structure

\* line 63: the test that opens the main-section branch
MainBranch(line) ==
    LET content == RStrip(line)
    IN content # <<>> /\ ~StartsWith(line, <<" ">>) /\ IsUpper(content)

\* line 85: the indentation test of the action branch
ActionIndent(line) ==
    StartsWith(line, <<" "," ">>) /\ ~StartsWith(line, <<" "," "," "," ">>)

\* lines 84-93: the line appends an Action record when in_actions has value t
IsActionHeader(line, t) ==
    /\ ~MainBranch(line)
    /\ t
    /\ ActionIndent(line)
    /\ Strip(RStrip(line)) # <<>>
    /\ ActionMatch(line) # <<>>

\* lines 70-82: in_actions after a Main record named content
ToggleOnMainAnyHeaderCloses(t, content) == content = ActionsName
ToggleOnMain(t, content) ==
    IF content = ActionsName THEN TRUE
    ELSE IF t /\ content \in ExitSet THEN FALSE
    ELSE t

\* self.sections[name] = rec: a dict keeps a key's first insertion position
DictSetKeepFirst(d, rec) ==
    IF \E n \in DOMAIN d : d[n].name = rec.name THEN d ELSE Append(d, rec)
DictSet(d, rec) ==
    IF \E n \in DOMAIN d : d[n].name = rec.name
    THEN [n \in DOMAIN d |-> IF d[n].name = rec.name THEN rec ELSE d[n]]
    ELSE Append(d, rec)

\* one iteration of the loop of parse_structure, on line i + 1
ParseLine ==
    /\ pc = "parse"
    /\ i < Len(help_lines)
    /\ LET n == i + 1
           line == help_lines[n]
           content == RStrip(line)
       IN /\ i' = n
          /\ IF MainBranch(line)
             THEN IF ~IsSeparator(content)
                  THEN /\ main_sections' =
                            Append(main_sections, [name |-> content, line |-> n])
                       /\ sections' = DictSet(sections,
                            [name |-> content, start_line |-> n, type |-> "main",
                             original_name |-> <<>>, end_line |-> 0])
                       /\ in_actions' = ToggleOnMain(in_actions, content)
                       /\ UNCHANGED action_sections
                  ELSE UNCHANGED <<main_sections, sections, in_actions,
                                   action_sections>>
             ELSE IF IsActionHeader(line, in_actions)
                  THEN /\ action_sections' = Append(action_sections,
                            [name |-> ActionMatch(line),
                             full_line |-> Strip(content), line |-> n])
                       /\ sections' = DictSet(sections,
                            [name |-> ActionMatch(line), start_line |-> n,
                             type |-> "action", original_name |-> Strip(content),
                             end_line |-> 0])
                       /\ UNCHANGED <<main_sections, in_actions>>
                  ELSE UNCHANGED <<main_sections, sections, in_actions,
                                   action_sections>>
    /\ UNCHANGED <<help_lines, pc, dirs, k, files, error, san_name, san_result>>

\* the loop of parse_structure is over: run goes on to generate_numbers
ParseEnd ==
    /\ pc = "parse"
    /\ i = Len(help_lines)
    /\ pc' = "numbers"
    /\ UNCHANGED <<help_lines, i, in_actions, main_sections, action_sections,
                   sections, dirs, k, files, error, san_name, san_result>>

\* generate_numbers: main() passes no numbers_output, so it returns at once
GenerateNumbers ==
    /\ pc = "numbers"
    /\ pc' = "ranges"
    /\ UNCHANGED <<help_lines, i, in_actions, main_sections, action_sections,
                   sections, dirs, k, files, error, san_name, san_result>>

\* ------------------------------------------------------------ calc_ranges

\* position of entry n of d in sorted(d, key=start_line); sorted() is stable
Rank(d, n) ==
    1 + Cardinality({m \in DOMAIN d :
            \/ d[m].start_line < d[n].start_line
            \/ d[m].start_line = d[n].start_line /\ m < n})

\* lines 168-170: sorted_sections, as the indices of d in ascending start_line
SortedOrderByInsertion(d) == [r \in 1..Len(d) |-> r]
SortedOrder(d) == [r \in 1..Len(d) |-> CHOOSE n \in DOMAIN d : Rank(d, n) = r]

\* lines 176-179: end_line of the r-th entry of the sorted list
EndLineNextStart(d, order, r, total) ==
    IF r + 1 <= Len(order) THEN d[order[r + 1]].start_line ELSE total
EndLine(d, order, r, total) ==
    IF r + 1 <= Len(order) THEN d[order[r + 1]].start_line - 1 ELSE total

\* calc_ranges: every entry of the mapping gets its end_line
CalcRanges ==
    /\ pc = "ranges"
    /\ LET order == SortedOrder(sections)
           pos(n) == CHOOSE r \in DOMAIN order : order[r] = n
       IN sections' = [n \in DOMAIN sections |->
            [sections[n] EXCEPT !.end_line =
                EndLine(sections, order, pos(n), Len(help_lines))]]
    /\ pc' = "extract_all"
    /\ UNCHANGED <<help_lines, i, in_actions, main_sections, action_sections,
                   dirs, k, files, error, san_name, san_result>>

\* ---------------------------------------------------------- sanitize_name

\* line 187: re.sub(r"[^\w\-_\.]", "_", name)
ReplaceUnsafe(s) ==
    [n \in DOMAIN s |->
        IF IsWordChar(s[n]) \/ s[n] \in {"-", "_", "."} THEN s[n] ELSE "_"]

RECURSIVE CollapseUnderscores(_)
\* lines 188-190: re.sub(r"_+", "_", sanitized)
CollapseUnderscores(s) ==
    IF Len(s) < 2 THEN s
    ELSE IF s[1] = "_" /\ s[2] = "_" THEN CollapseUnderscores(Tail(s))
    ELSE <<s[1]>> \o CollapseUnderscores(Tail(s))

RECURSIVE StripChar(_, _)
\* s.strip(c) for a single character c
StripChar(s, c) ==
    IF s = <<>> THEN s
    ELSE IF s[1] = c THEN StripChar(Tail(s), c)
    ELSE IF s[Len(s)] = c THEN StripChar(SubSeq(s, 1, Len(s) - 1), c)
    ELSE s

RECURSIVE RStripChar(_, _)
\* s.rstrip(c) for a single character c
RStripChar(s, c) ==
    IF s = <<>> THEN s
    ELSE IF s[Len(s)] = c THEN RStripChar(SubSeq(s, 1, Len(s) - 1), c)
    ELSE s

\* s.lower()
Lower(s) == [n \in DOMAIN s |-> LowerChar(s[n])]

\* sanitize_name
SanitizeNameKeepCase(name) ==
    RStripChar(StripChar(CollapseUnderscores(ReplaceUnsafe(name)), "_"), ".")
SanitizeName(name) ==
    Lower(RStripChar(StripChar(CollapseUnderscores(ReplaceUnsafe(name)), "_"), "."))

\* -------------------------------------------------------- extract_content

RECURSIVE DropBlankTail(_)
\* lines 205-206: while lines and not lines[-1].strip(): lines.pop()
DropBlankTail(ls) ==
    IF ls = <<>> THEN ls
    ELSE IF Strip(ls[Len(ls)]) = <<>> THEN DropBlankTail(SubSeq(ls, 1, Len(ls) - 1))
    ELSE ls

RECURSIVE Join(_)
\* "".join(lines)
Join(ls) == IF ls = <<>> THEN <<>> ELSE Head(ls) \o Join(Tail(ls))

Min(a, b) == IF a < b THEN a ELSE b

\* extract_content: the slice [start_line - 1 : min(end_line, len)] joined
ExtractContent(lines, start_line, end_line) ==
    Join(DropBlankTail(SubSeq(lines, start_line, Min(end_line, Len(lines)))))

\* ------------------------------------------------------------ extract_all

\* create_dirs, the first statement of extract_all
CreateDirs ==
    /\ pc = "extract_all"
    /\ dirs' = dirs \cup {"base", "actions"}
    /\ pc' = "extract_loop"
    /\ UNCHANGED <<help_lines, i, in_actions, main_sections, action_sections,
                   sections, k, files, error, san_name, san_result>>

\* lines 235-241: the directory a record is written to, "skip" for none
OutputDirAllMains(rec) ==
    IF rec.type = "action" THEN "actions" ELSE "base"
OutputDir(rec) ==
    IF rec.type = "action" THEN "actions"
    ELSE IF rec.name = OptionsName THEN "base"
    ELSE "skip"

\* line 233 and 236/238: the path of the record's file
OutputPath(rec) == <<OutputDir(rec), SanitizeName(rec.name) \o TxtExt>>

\* lines 244-245: open(path, "w") and write: the file's content is replaced
WriteFileKeepExisting(fs, path, content) ==
    IF path \in DOMAIN fs THEN fs ELSE (path :> content) @@ fs
WriteFile(fs, path, content) == (path :> content) @@ fs

\* one iteration of the loop of extract_all that writes a file
ExtractWrite ==
    /\ pc = "extract_loop"
    /\ k < Len(sections)
    /\ LET rec == sections[k + 1]
       IN /\ OutputDir(rec) # "skip"
          /\ files' = WriteFile(files, OutputPath(rec),
                ExtractContent(help_lines, rec.start_line, rec.end_line))
    /\ k' = k + 1
    /\ UNCHANGED <<help_lines, pc, i, in_actions, main_sections,
                   action_sections, sections, dirs, error, san_name, san_result>>

\* one iteration of the loop of extract_all that takes the continue of line 241
ExtractSkip ==
    /\ pc = "extract_loop"
    /\ k < Len(sections)
    /\ OutputDir(sections[k + 1]) = "skip"
    /\ k' = k + 1
    /\ UNCHANGED <<help_lines, pc, i, in_actions, main_sections, action_sections,
                   sections, dirs, files, error, san_name, san_result>>

\* the loop of extract_all is over and run returns
ExtractEnd ==
    /\ pc = "extract_loop"
    /\ k = Len(sections)
    /\ pc' = "done"
    /\ UNCHANGED <<help_lines, i, in_actions, main_sections, action_sections,
                   sections, dirs, k, files, error, san_name, san_result>>

\* lines 244-245 raise OSError: nothing catches it in extract_all, run or main,
\* so the run ends there. open() may have failed (the file is untouched) or
\* have truncated the file before write() failed (the file is left empty).
WriteFailsAndContinues(truncated) ==
    /\ error' = k + 1
    /\ k' = k + 1
    /\ UNCHANGED <<pc, files>>
WriteFailsOutcome(truncated) ==
    /\ error' = k + 1
    /\ pc' = "aborted"
    /\ files' = IF truncated
                THEN WriteFile(files, OutputPath(sections[k + 1]), <<>>)
                ELSE files
    /\ UNCHANGED k

WriteFails ==
    /\ pc = "extract_loop"
    /\ k < Len(sections)
    /\ OutputDir(sections[k + 1]) # "skip"
    /\ \E truncated \in BOOLEAN : WriteFailsOutcome(truncated)
    /\ UNCHANGED <<help_lines, i, in_actions, main_sections, action_sections,
                   sections, dirs, san_name, san_result>>

\* ------------------------------------------------------- sanitize_name call

SanitizeCall ==
    /\ pc = "sanitize"
    /\ san_result' = SanitizeName(san_name)
    /\ pc' = "sanitized"
    /\ UNCHANGED <<help_lines, i, in_actions, main_sections, action_sections,
                   sections, dirs, k, files, error, san_name>>

\* ------------------------------------------------------------------ inputs

SeqsUpTo(S, n) == UNION {[1..m -> S] : m \in 0..n}

\* the lines the inputs of the pipeline specification are made of
LinePool == {
    ActionsName \o <<NL>>,
    <<"U","S","E","R"," ","M","O","D","E",NL>>,
    OptionsName \o <<NL>>,
    <<" "," ","f","o","o"," ","a",NL>>,
    <<" "," ","f","o","o"," ","b",NL>>,
    <<" "," ","F","o","o",NL>>,
    <<" "," ">> \o OptionsName \o <<" ","x",NL>>,
    <<" "," ","b","a","r",NL>>,
    <<NL>>,
    <<"t","e","x","t",NL>> }

\* the characters of the free line of SpecLine
LineAlphabet == {" ", "a", "A", "1", "-", "="}

\* the characters of the names of SpecSan
NameAlphabet == {"a", "A", "1", "_", "-", ".", " "}

\* __init__ (lines 40-46) followed by load_help_stdin (lines 48-51)
InitWith(lines) ==
    /\ help_lines = lines
    /\ pc = "parse"
    /\ i = 0
    /\ in_actions = FALSE
    /\ main_sections = <<>>
    /\ action_sections = <<>>
    /\ sections = <<>>
    /\ dirs = {}
    /\ k = 0
    /\ files = <<>>
    /\ error = 0
    /\ san_name = <<>>
    /\ san_result = <<>>

Init == \E lines \in SeqsUpTo(LinePool, MaxLines) : InitWith(lines)

InitLine ==
    \E body \in SeqsUpTo(LineAlphabet, MaxLineLen), opened \in BOOLEAN :
        InitWith(IF opened THEN <<ActionsName \o <<NL>>, body \o <<NL>>>>
                 ELSE <<body \o <<NL>>>>)

InitSan ==
    /\ san_name \in SeqsUpTo(NameAlphabet, MaxNameLen)
    /\ san_result = <<>>
    /\ pc = "sanitize"
    /\ help_lines = <<>>
    /\ i = 0
    /\ in_actions = FALSE
    /\ main_sections = <<>>
    /\ action_sections = <<>>
    /\ sections = <<>>
    /\ dirs = {}
    /\ k = 0
    /\ files = <<>>
    /\ error = 0

\* run (lines 249-259) on a file system that takes every write
Next ==
    \/ ParseLine
    \/ ParseEnd
    \/ GenerateNumbers
    \/ CalcRanges
    \/ CreateDirs
    \/ ExtractWrite
    \/ ExtractSkip
    \/ ExtractEnd

\* run on a file system where a write may fail
NextFail == Next \/ WriteFails

NextSan == SanitizeCall

Spec == Init /\ [][Next]_vars
SpecLine == InitLine /\ [][Next]_vars
SpecFail == Init /\ [][NextFail]_vars
SpecSan == InitSan /\ [][NextSan]_vars

\* ------------------------------------------------- what the input produced

\* line n appended a Main record / an Action record
MainAt(n) == \E m \in DOMAIN main_sections : main_sections[m].line = n
ActionAt(n) == \E m \in DOMAIN action_sections : action_sections[m].line = n
RecordAt(n) == MainAt(n) \/ ActionAt(n)

\* the name of the record line n appended
NameAt(n) ==
    IF MainAt(n)
    THEN main_sections[CHOOSE m \in DOMAIN main_sections :
                            main_sections[m].line = n].name
    ELSE action_sections[CHOOSE m \in DOMAIN action_sections :
                            action_sections[m].line = n].name

SetMin(S) == CHOOSE x \in S : \A y \in S : x <= y
SetMax(S) == CHOOSE x \in S : \A y \in S : x >= y

\* the lines that appended a record named nm, and the first and last of them
LinesOf(nm) == {n \in 1..i : RecordAt(n) /\ NameAt(n) = nm}
FirstLine(nm) == SetMin(LinesOf(nm))
LastLine(nm) == SetMax(LinesOf(nm))

\* the names recorded so far, and those whose last header is an action header
Names == {NameAt(n) : n \in {m \in 1..i : RecordAt(m)}}
ActionNames == {nm \in Names : ActionAt(LastLine(nm))}

\* the lines at which a range starts: the last header of each name
Starts == {LastLine(nm) : nm \in Names}

\* the last line of the range that starts at line n
RangeEnd(n) ==
    IF \E m \in Starts : m > n
    THEN SetMin({m \in Starts : m > n}) - 1
    ELSE Len(help_lines)

\* the extracted content of the range that starts at line n
RangeContent(n) == ExtractContent(help_lines, n, RangeEnd(n))

\* the tracked region is open after the first n lines: an ACTIONS header
\* with no exit-set header after it
TrackedAfter(n) ==
    \E j \in 1..n :
        /\ MainAt(j) /\ NameAt(j) = ActionsName
        /\ \A m \in (j + 1)..n : ~(MainAt(m) /\ NameAt(m) \in ExitSet)

RangesDone == pc \in {"extract_all", "extract_loop", "done"}

RECURSIVE SumLengths(_, _)
SumLengths(d, n) ==
    IF n = 0 THEN 0
    ELSE (d[n].end_line - d[n].start_line + 1) + SumLengths(d, n - 1)

MinStart == SetMin({sections[n].start_line : n \in DOMAIN sections})

OptionsFile == <<"base", <<"o","p","t","i","o","n","s",".","t","x","t">>>>
ActionFile(nm) == <<"actions", SanitizeName(nm) \o TxtExt>>
ActionFiles == {p \in DOMAIN files : p[1] = "actions"}

\* ------------------------------------------------------------------ claims

\* C1: after parse_structure and calc_ranges the ranges of the records of the
\* mapping partition the lines from the smallest start_line to the last line:
\* every such line is in exactly one range, and the lengths of the ranges add
\* up to total_lines - (global_min_start_line - 1).
C1_RangesPartition ==
    RangesDone /\ sections # <<>> =>
        /\ \A ln \in MinStart..Len(help_lines) :
              Cardinality({n \in DOMAIN sections :
                  sections[n].start_line <= ln /\ ln <= sections[n].end_line}) = 1
        /\ SumLengths(sections, Len(sections)) = Len(help_lines) - (MinStart - 1)

C1_Witness ==
    /\ RangesDone
    /\ Len(sections) >= 2
    /\ MinStart > 1
    /\ Len(main_sections) + Len(action_sections) > Len(sections)

\* C2 (its "only if" half and its "in particular"): a line produces an Action
\* record only if the tracked region is open when it is processed, it is not
\* a main-section header, it starts with exactly two spaces (the third
\* character, if any, is not a space) and its trimmed content is not empty;
\* so a line indented by three spaces never produces an Action record.
C2_ActionOnlyIfExactlyTwoSpaces ==
    \A n \in 1..i :
        ActionAt(n) =>
            /\ TrackedAfter(n - 1)
            /\ ~MainAt(n)
            /\ StartsWith(help_lines[n], <<" ", " ">>)
            /\ ~StartsWith(help_lines[n], <<" ", " ", " ">>)
            /\ Strip(help_lines[n]) # <<>>

\* C3 as stated: a line produces a Main record if and only if it is not empty
\* after right-trim, does not start with a space, has no lowercase letter and
\* is not made of '=' and '-' only (so a line of digits does).
C3_MainIffNoLowercase ==
    \A n \in 1..i :
        MainAt(n) <=>
            LET content == RStrip(help_lines[n])
            IN /\ content # <<>>
               /\ help_lines[n][1] # " "
               /\ \A c \in DOMAIN content : content[c] \notin LowerChars
               /\ \E c \in DOMAIN content : content[c] \notin {"=", "-"}

\* C3 (amended): a line produces a Main record if and only if it is not empty
\* after right-trim, does not start with a space, has at least one uppercase
\* letter and no lowercase letter, and is not made of '=' and '-' only.
C3_MainIffUppercase ==
    \A n \in 1..i :
        MainAt(n) <=>
            LET content == RStrip(help_lines[n])
            IN /\ content # <<>>
               /\ help_lines[n][1] # " "
               /\ \E c \in DOMAIN content : content[c] \in UpperChars
               /\ \A c \in DOMAIN content : content[c] \notin LowerChars
               /\ \E c \in DOMAIN content : content[c] \notin {"=", "-"}

\* a column-0 line without any letter (digits, punctuation) was processed and
\* gave no Main record, and a line with an uppercase letter gave one
C3_Witness ==
    \E n \in 1..i :
        LET content == RStrip(help_lines[n])
        IN /\ content # <<>>
           /\ help_lines[n][1] # " "
           /\ \A c \in DOMAIN content : content[c] \in DigitChars
           /\ ~MainAt(n)
           /\ \E m \in 1..i : MainAt(m)

\* C4: after any prefix of the input the tracked-region state is true if and
\* only if an ACTIONS header was seen with no exit-set header after the most
\* recent one (other headers leave it unchanged), and every Action record
\* comes from a line processed while the region was open.
C4_TrackedRegion ==
    /\ in_actions = TrackedAfter(i)
    /\ \A n \in 1..i : ActionAt(n) => TrackedAfter(n - 1)

\* the region was opened, then closed by an exit-set header, a header that is
\* neither was seen while it was open, and two-space lines before the opening
\* or after the closing gave no Action record
C4_Witness ==
    \E a, b, c \in 1..i :
        /\ a < b /\ b < c
        /\ MainAt(a) /\ NameAt(a) = ActionsName
        /\ MainAt(b) /\ NameAt(b) \in ExitSet
        /\ ActionIndent(help_lines[c]) /\ ~ActionAt(c)
        /\ ~in_actions

\* the action names that have two or more headers
DupNames ==
    {nm \in Names : Cardinality({n \in LinesOf(nm) : ActionAt(n)}) >= 2}

\* the last action header of name nm
LastActionLine(nm) == SetMax({n \in LinesOf(nm) : ActionAt(n)})

\* another action name with the same file name that first appears after nm
\* first appeared: its record is written after nm's, to the same file
OverwrittenBy(nm) ==
    {o \in ActionNames :
        /\ o # nm
        /\ SanitizeName(o) = SanitizeName(nm)
        /\ FirstLine(o) > FirstLine(nm)}

\* C5 as stated: for an action name with two or more headers the run leaves
\* one mapping entry and one file actions/<name>.txt, whose content is the
\* extracted content of the range that starts at the last occurrence.
C5_DuplicateLastWins ==
    pc = "done" =>
        \A nm \in DupNames :
            /\ Cardinality({n \in DOMAIN sections : sections[n].name = nm}) = 1
            /\ ActionFile(nm) \in DOMAIN files
            /\ files[ActionFile(nm)] = RangeContent(LastActionLine(nm))

\* C5 (amended): for an action name with two or more headers the mapping has
\* exactly one entry, which starts at the last header of that name (of either
\* kind); when that header is an action header the run writes
\* actions/<sanitized name>.txt, and its content is the extracted content of
\* the range that starts there, unless another action name with the same
\* sanitized name first appears later in the input and overwrites the file.
C5_DuplicateLastWinsUnlessShadowed ==
    pc = "done" =>
        \A nm \in DupNames :
            /\ Cardinality({n \in DOMAIN sections : sections[n].name = nm}) = 1
            /\ \A n \in DOMAIN sections :
                  sections[n].name = nm => sections[n].start_line = LastLine(nm)
            /\ nm \in ActionNames =>
                  /\ ActionFile(nm) \in DOMAIN files
                  /\ OverwrittenBy(nm) = {} =>
                        files[ActionFile(nm)] = RangeContent(LastLine(nm))

\* a run is over in which an action name had two headers, the second with
\* other text than the first, and its file holds the second one's range
C5_Witness ==
    /\ pc = "done"
    /\ \E nm \in DupNames \cap ActionNames :
          /\ OverwrittenBy(nm) = {}
          /\ help_lines[FirstLine(nm)] # help_lines[LastLine(nm)]
          /\ files[ActionFile(nm)] = help_lines[LastLine(nm)]

\* C6 as stated: when the input has a main-section header OPTIONS the run
\* writes <base>/options.txt with the content of that section's range; Action
\* records are written only under actions/, other Main records give no file.
C6_OptionsWritten ==
    pc = "done" =>
        /\ (\E n \in 1..i : MainAt(n) /\ NameAt(n) = OptionsName) =>
              /\ OptionsFile \in DOMAIN files
              /\ files[OptionsFile] = RangeContent(
                    SetMax({n \in 1..i : MainAt(n) /\ NameAt(n) = OptionsName}))
        /\ \A p \in DOMAIN files : p[1] = "base" => p = OptionsFile
        /\ \A nm \in ActionNames : ActionFile(nm) \in DOMAIN files

\* C6 (amended): when the last header named OPTIONS (of either kind) is a
\* main-section header, the run writes <base>/options.txt with the content of
\* the range that starts at it; nothing else is written under <base>, Action
\* records are written under actions/, other Main records give no file.
C6_OptionsWrittenWhenLastIsMain ==
    pc = "done" =>
        /\ (OptionsName \in Names /\ MainAt(LastLine(OptionsName))) =>
              /\ OptionsFile \in DOMAIN files
              /\ files[OptionsFile] = RangeContent(LastLine(OptionsName))
        /\ \A p \in DOMAIN files :
              p[1] = "base" =>
                  /\ p = OptionsFile
                  /\ OptionsName \in Names /\ MainAt(LastLine(OptionsName))
        /\ \A nm \in ActionNames : ActionFile(nm) \in DOMAIN files
        /\ \A p \in DOMAIN files : p[1] \in {"base", "actions"}

\* a run is over that wrote options.txt for an OPTIONS main section, skipped
\* another Main record and wrote an Action record under actions/
C6_Witness ==
    /\ pc = "done"
    /\ OptionsFile \in DOMAIN files
    /\ files[OptionsFile] # <<>>
    /\ ActionsName \in Names
    /\ ActionFiles # {}

\* the characters [a-z0-9._-]
SafeChars == LowerChars \cup DigitChars \cup {".", "_", "-"}

\* C7 as stated: the result of sanitize_name has only characters of
\* [a-z0-9._-] and neither starts nor ends with '_'.
C7_SanitizedNoUnderscoreEnds ==
    pc = "sanitized" =>
        /\ \A n \in DOMAIN san_result : san_result[n] \in SafeChars
        /\ san_result # <<>> =>
              san_result[1] # "_" /\ san_result[Len(san_result)] # "_"

\* C7 (amended): the result of sanitize_name has only characters of
\* [a-z0-9._-], does not start with '_', does not end with '.', and ends with
\* '_' only when the name contains a '.' (trailing dots are stripped after
\* the underscores, as in "a_." -> "a_").
C7_SanitizedSafe ==
    pc = "sanitized" =>
        /\ \A n \in DOMAIN san_result : san_result[n] \in SafeChars
        /\ san_result # <<>> =>
              /\ san_result[1] # "_"
              /\ san_result[Len(san_result)] # "."
              /\ san_result[Len(san_result)] = "_" =>
                    \E n \in DOMAIN san_name : san_name[n] = "."

\* a name with an uppercase letter, a space and a leading underscore was
\* sanitized to a non-empty result
C7_Witness ==
    /\ pc = "sanitized"
    /\ san_result # <<>>
    /\ san_name # <<>>
    /\ san_name[1] = "_"
    /\ \E n \in DOMAIN san_name : san_name[n] \in UpperChars
    /\ \E n \in DOMAIN san_name : san_name[n] = " "

\* the records of the mapping that extract_all writes to a file
Routable == {n \in DOMAIN sections : OutputDir(sections[n]) # "skip"}

C9_RangesWellFormed ==
    RangesDone =>
        /\ \A n \in DOMAIN sections :
              LET later == {sections[m].start_line : m \in
                              {m \in DOMAIN sections :
                                sections[m].start_line > sections[n].start_line}}
              IN /\ sections[n].start_line <= sections[n].end_line
                 /\ sections[n].end_line =
                        IF later # {} THEN SetMin(later) - 1 ELSE Len(help_lines)
        /\ \A n, m \in DOMAIN sections :
              n # m => sections[n].start_line # sections[m].start_line

\* ranges were computed for a mapping whose insertion order is not its
\* start-line order (a name was seen again after another name)
C9_Witness ==
    /\ RangesDone
    /\ \E n, m \in DOMAIN sections :
          n < m /\ sections[n].start_line > sections[m].start_line

\* C10 as stated: the run writes one file under actions/ per distinct action
\* short name, two distinct names (also names that differ in case only) never
\* share a file, and each file holds the last occurrence of its own name.
C10_OneFilePerName ==
    pc = "done" =>
        LET found == {action_sections[m].name : m \in DOMAIN action_sections}
        IN /\ Cardinality(ActionFiles) = Cardinality(found)
           /\ \A nm \in found :
                 /\ ActionFile(nm) \in DOMAIN files
                 /\ files[ActionFile(nm)] = RangeContent(LastActionLine(nm))

\* the action name written last among those that share file p
LastWriter(p) ==
    CHOOSE nm \in ActionNames :
        /\ ActionFile(nm) = p
        /\ \A o \in ActionNames :
              ActionFile(o) = p => FirstLine(o) <= FirstLine(nm)

\* C10 (amended): the run writes one file under actions/ per distinct
\* sanitized name of the action names whose last header is an action header;
\* names with the same sanitized name (such as names that differ in case
\* only) share one file, and each file holds the range of the last occurrence
\* of the name, among those that share it, that first appeared latest.
C10_OneFilePerSanitizedName ==
    pc = "done" =>
        /\ ActionFiles = {ActionFile(nm) : nm \in ActionNames}
        /\ \A p \in ActionFiles :
              files[p] = RangeContent(LastLine(LastWriter(p)))

\* a run is over in which two action names that differ in case only were
\* written to one file, and another name to its own file
C10_Witness ==
    /\ pc = "done"
    /\ \E a, b \in ActionNames : a # b /\ ActionFile(a) = ActionFile(b)
    /\ Cardinality(ActionFiles) >= 2

====
